---------------------------- MODULE Spec2Model ----------------------------
(***************************************************************************)
(* Access-control decision engine of spi-exata: the write-through cache    *)
(* coordinator (aclcache.Store) over the relational rule store (acldb) and *)
(* the in-memory casbin enforcer (memoryCache).                            *)
(*                                                                         *)
(* Request goroutines are the elements of Threads.  Every call on shared   *)
(* state (one SQL statement of acldb, one call on the casbin enforcer) is  *)
(* one atomic step, so goroutines interleave between the store call and    *)
(* the enforcer calls of one Coordinator operation, as the code allows:    *)
(* aclcache.Store holds no lock of its own.  The variables revoked,        *)
(* deleted and repaired record history for the properties; no action reads *)
(* them in a guard.                                                        *)
(***************************************************************************)
EXTENDS Naturals, FiniteSets, Sequences, TLC

(***************************************************************************)
(* Bounds of the model.                                                    *)
(***************************************************************************)
NumThreads == 2
NumUsers == 1
NumResources == 2
MaxOps == 2
MaxSeqOps == 4
MaxRaceOps == 4
MaxEngineOps == 4
MaxFaultOps == 3
MaxTxOps == 3
MaxTransactions == 2
MaxNilOps == 3
MaxRules == 3

UserNames == <<"u1", "u2", "u3">>
ResourceNames == <<"r1", "r2", "r3">>

Threads == 1..NumThreads
Users == {UserNames[i] : i \in 1..NumUsers}
ResourceIDs == {ResourceNames[i] : i \in 1..NumResources}

\* uuid.Nil, the sentinel of a type-scope check.
NilID == "00000000-0000-0000-0000-000000000000"

\* role.Admin, role.Analyst, role.User
Roles == {"ADMIN", "ANALYST", "USER"}

\* resource types registered by the seed (two of the three are modelled)
Types == {"DASHBOARD", "PAGE"}

\* actions.Get, actions.Update (two of the four actions are modelled)
Actions == {"GET", "UPDATE"}

\* The errors a call can return; "nil" is success.
ErrUnique == "ErrUnique"
ErrAccessDenied == "ErrAccessDenied"
ErrInternal == "ErrInternal"
\* the Go runtime ends the process ("fatal error: concurrent map writes",
\* an index out of range) when calls on the enforcer race
Panic == "panic"

VARIABLES
    acl,        \* table "acl": the persisted rules
    userRole,   \* table "users" joined with "role": user -> role of record
    policy,     \* casbin p-rules of the enforcer: <<sub, obj, act>>
    grouping,   \* casbin g-rules of the enforcer: <<sub, "ROLE:<ROLE>">>
    ctor,       \* position of NewStore
    th,         \* per goroutine: the Coordinator call it is executing
    last,       \* what the most recent Coordinator call returned to its caller
    ops,        \* number of operations begun so far
    revoked,    \* history: <<u, r, a>> taken away by the latest write of (u, r), completed
    deleted,    \* history: pairs <<u, r>> deleted and not created again since
    repaired,   \* history: <<u, r, a>> self-repaired, no write of (u, r) begun since
    mw,         \* the Authorize middleware of a route: its Auth, its idKey, its last response
    tx,         \* the transaction of BeginCommitRollback: open or not, and what a rollback undoes
    req,        \* the request passing the middleware chain of a route: its context, its transaction, its response
    enf         \* the p-rules of an enforcer in the order casbin keeps them, and the last call made on them

hist == <<revoked, deleted, repaired>>

vars == <<acl, userRole, policy, grouping, ctor, th, last, ops, hist, mw, tx, req, enf>>

(***************************************************************************)
(* Table data the subsystem reads and never writes.                        *)
(***************************************************************************)
\* table "resource": every resource instance is registered with one type,
\* and acl rows reference (resource_id, resource_type_id) of it.
ResourceTypeOf(r) == IF r = "r2" THEN "PAGE" ELSE "DASHBOARD"

\* table "role_policy": the role-based grants per resource type.
RolePolicy(role, t) ==
    IF role = "ANALYST" THEN Actions
    ELSE IF role = "USER" /\ t = "DASHBOARD" THEN {"GET"}
    ELSE {}

(***************************************************************************)
(* Persistent rule store (acldb).                                          *)
(***************************************************************************)
Row(u, r, t, acts) == [user |-> u, resource |-> r, rtype |-> t, actions |-> acts]

HasRule(u, r) == \E row \in acl : row.user = u /\ row.resource = r

\* variant of the INSERT on a table without its primary key (C11 must tell
\* it from the code)
DBCreateErr_NoPrimaryKey(u, r, t) ==
    IF r \notin ResourceIDs \/ ResourceTypeOf(r) # t THEN ErrInternal ELSE "nil"

\* acldb.Store.Create: the error of the INSERT, "nil" when the row is inserted.
DBCreateErr(u, r, t) ==
    IF HasRule(u, r) THEN ErrUnique
    ELSE IF r \notin ResourceIDs \/ ResourceTypeOf(r) # t THEN ErrInternal
    ELSE "nil"

DBCreate(u, r, t, acts) ==
    IF DBCreateErr(u, r, t) = "nil" THEN acl \cup {Row(u, r, t, acts)} ELSE acl

\* acldb.Store.Update: replaces the actions of the rows the WHERE clause matches.
DBUpdate(u, r, t, acts) ==
    {IF row.user = u /\ row.resource = r /\ row.rtype = t
        THEN Row(u, r, t, acts) ELSE row : row \in acl}

\* acldb.Store.Delete
DBDelete(u, r) == {row \in acl : ~(row.user = u /\ row.resource = r)}

\* acldb.Store.ValidateAccess: count(1) > 0
DBValidateAccess(u, r, t, a) ==
    \E row \in acl : /\ row.user = u
                     /\ row.resource = r
                     /\ row.rtype = t
                     /\ a \in row.actions

\* acldb.Store.ValidateAccessToResource: count(1) > 0
DBValidateAccessToResource(u, t, a) ==
    \/ userRole[u] = "ADMIN"
    \/ a \in RolePolicy(userRole[u], t)

(***************************************************************************)
(* Policy evaluation engine (memoryCache over a casbin enforcer).          *)
(***************************************************************************)
RoleName(role) == "ROLE:" \o role

\* g(name1, name2) of the casbin model: a name links to itself and to the
\* roles it is grouped under (role names are never grouped further).
HasLink(g, n1, n2) == n1 = n2 \/ <<n1, n2>> \in g

\* variant of the matcher without its first disjunct, g(r.sub, "ROLE:ADMIN")
\* (C13 must tell it from the code)
Enforce_NoBypass(p, g, sub, obj, act) ==
    \E rule \in p : HasLink(g, sub, rule[1]) /\ obj = rule[2] /\ act = rule[3]


\* variant of the matcher without its last conjunct, r.act == p.act (C32
\* must tell it from the code)
Enforce_AnyAction(p, g, sub, obj, act) ==
    \/ HasLink(g, sub, RoleName("ADMIN"))
    \/ \E rule \in p : HasLink(g, sub, rule[1]) /\ obj = rule[2]

\* enforcer.Enforce with the matcher of casbinModel over rules p and g.
Enforce(p, g, sub, obj, act) ==
    \/ HasLink(g, sub, RoleName("ADMIN"))
    \/ \E rule \in p : HasLink(g, sub, rule[1]) /\ obj = rule[2] /\ act = rule[3]

\* variant that names the object by the id even when the id is uuid.Nil
\* (C23 must tell it from the code)
resolveObject_AlwaysID(t, id) == id

\* memoryCache.resolveObject
resolveObject(t, id) == IF id # NilID THEN id ELSE t

\* memoryCache.add: enforcer.AddPolicy(sub, obj, action)
add(p, u, t, id, a) == p \cup {<<u, resolveObject(t, id), a>>}

\* variant of clearInstanceRules that removes nothing (C8 must tell it from
\* the code)
clearInstanceRules_Nothing(p, u, id) == p

\* memoryCache.clearInstanceRules: enforcer.RemoveFilteredPolicy(0, sub, obj)
clearInstanceRules(p, u, id) ==
    IF id = NilID THEN p
    ELSE {rule \in p : ~(rule[1] = u /\ rule[2] = id)}

\* the grouping facts of subject u in g
RolesOf(g, u) == {link \in g : link[1] = u}

\* variant of setUserRole's first call that removes nothing (C15 must tell it
\* from the code)
removeUserRoles_Nothing(g, u) == g

\* memoryCache.setUserRole, first call: RemoveFilteredGroupingPolicy(0, sub)
removeUserRoles(g, u) == {link \in g : link[1] # u}

\* memoryCache.setUserRole, second call: AddGroupingPolicy(sub, roleName)
addUserRole(g, u, role) == g \cup {<<u, RoleName(role)>>}

\* memoryCache.setUserRole
setUserRole(g, u, role) == addUserRole(removeUserRoles(g, u), u, role)

\* memoryCache.loadRoles
RECURSIVE loadRoles(_, _, _)
loadRoles(g, roles, us) ==
    IF us = {} THEN g
    ELSE LET u == CHOOSE x \in us : TRUE
         IN loadRoles(setUserRole(g, u, roles[u]), roles, us \ {u})

\* variant of the warm-up that loads one action of every rule (C6 must tell
\* it from the code)
loadPermissions_OneAction(p, rows) ==
    p \cup {<<row.user, resolveObject(row.rtype, row.resource),
              CHOOSE a \in row.actions : TRUE>> : row \in rows}

\* variant of the warm-up that adds, with every instance fact, the fact of
\* the rule's resource type (C25 must tell it from the code)
loadPermissions_WithTypes(p, rows) ==
    p \cup UNION {{<<row.user, row.resource, a>> : a \in row.actions} \cup
                  {<<row.user, row.rtype, a>> : a \in row.actions} : row \in rows}

\* the add loop of syncCache over every rule and every action of it
loadPermissions(p, rows) ==
    p \cup UNION {{<<row.user, resolveObject(row.rtype, row.resource), a>> :
                      a \in row.actions} : row \in rows}


\* variant of the second Enforce that takes a fact of the subject on any
\* object for the fact of the resource type (C31 must tell it from the code)
checkType_AnyObject(p, g, u, t, a) ==
    \E rule \in p : Enforce(p, g, u, rule[2], a)

\* memoryCache.check, first Enforce: the instance-scope fact
checkInstance(p, g, u, id, a) == id # NilID /\ Enforce(p, g, u, id, a)

\* memoryCache.check, second Enforce: the type-scope fact
checkType(p, g, u, t, a) == Enforce(p, g, u, t, a)

(***************************************************************************)
(* Goroutines executing Coordinator calls.                                 *)
(***************************************************************************)
\* gone: the actions the Store call of a write took away from its pair; for
\* SyncUserRole, the grouping facts its setUserRole removed; old: the actions
\* of the rule an Update replaces (none when its UPDATE matches no row); eng:
\* the call on the enforcer the goroutine is inside; fault: an Enforce of the
\* call returned an error
Idle == [pc |-> "idle", op |-> "none", u |-> "-", r |-> "-", t |-> "-",
         a |-> "-", role |-> "-", todo |-> {}, acts |-> {}, gone |-> {},
         calls |-> 0, eng |-> "out", old |-> {}, fault |-> FALSE]

(***************************************************************************)
(* Error values.  An error is the chain that errors.Unwrap walks, the      *)
(* outermost message first; the nil error is the empty chain.              *)
(***************************************************************************)
\* fmt.Errorf("<prefix>: %w", err)
Errorf(prefix, chain) == <<prefix>> \o chain

\* errors.Is(err, target): some error of the chain is the target
Is(chain, target) == \E i \in DOMAIN chain : chain[i] = target

\* the error value behind the result err of a Coordinator call: acldb wraps
\* the driver's error and ErrUnique, and returns ErrAccessDenied bare; the
\* Coordinator returns the Store's error as it is
StoreError(op, err) ==
    IF err = "nil" THEN <<>>
    ELSE IF err = ErrAccessDenied THEN <<ErrAccessDenied>>
    ELSE IF op \in {"ValidateAccess", "ValidateAccessToResource"}
    THEN Errorf("namedquerystruct", <<err>>)
    ELSE Errorf("namedexeccontext", <<err>>)

\* the prefix each method of aclbus.Core gives to the error it wraps
CorePrefix(op) ==
    CASE op = "Create" -> "create"
      [] op = "Delete" -> "delete"
      [] op = "Update" -> "update"
      [] op = "ValidateAccess" -> "validateAccess"
      [] op = "ValidateAccessToResource" -> "validateAccessToResource"
      [] op = "SyncUserRole" -> "syncUserRole"

\* variant of the facade that formats the error into its message (%v) and so
\* cuts the chain (C20 must tell it from the code)
CoreReturn_Opaque(op, err) ==
    IF err = "nil" THEN <<>> ELSE <<CorePrefix(op) \o ": " \o err>>

\* a method of aclbus.Core: nil when the store returns nil, else the store's
\* error wrapped
CoreReturn(op, err) ==
    IF err = "nil" THEN <<>> ELSE Errorf(CorePrefix(op), StoreError(op, err))

\* nothing has returned yet
NoResult == [n |-> 0, op |-> "none", u |-> "-", r |-> "-", t |-> "-", a |-> "-",
             res |-> "-", via |-> "-", calls |-> 0, stale |-> FALSE,
             core |-> <<>>, fault |-> FALSE]

\* the n-th return: call c returns err to its caller after c.calls calls on
\* the Store; via says what decided a check: the enforcer ("bypass",
\* "instance", "type") or the "store"; core is what the facade aclbus.Core
\* returns to its own caller for it
Result(c, err, via) ==
    [n |-> last.n + 1, op |-> c.op, u |-> c.u, r |-> c.r, t |-> c.t, a |-> c.a,
     res |-> err, via |-> via, calls |-> c.calls, stale |-> FALSE,
     core |-> CoreReturn(c.op, err), fault |-> c.fault]

Call(op, u, r, t, a, role) ==
    [Idle EXCEPT !.op = op, !.u = u, !.r = r, !.t = t, !.a = a, !.role = role]

\* variant in which a goroutine may call a Coordinator whose construction
\* has not succeeded (C7 must tell it from the code)
CanBegin_Unbuilt(t) == th[t].pc = "idle"

CanBegin(t) == ctor = "ready" /\ th[t].pc = "idle"

\* goroutine t goes on inside its call, now at c
Goes(t, c) == th' = [th EXCEPT ![t] = [c EXCEPT !.eng = "out"]] /\ last' = last

\* the call c of goroutine t returns err to its caller
Returns(t, c, err, via) == th' = [th EXCEPT ![t] = Idle] /\ last' = Result(c, err, via)

\* another goroutine is inside a write (Create, Update, Delete) of the pair (u, r)
WriteInFlight(t, u, r) ==
    \E o \in Threads \ {t} :
        /\ th[o].op \in {"Create", "Update", "Delete"}
        /\ th[o].u = u /\ th[o].r = r

StoreGrants(u, r, a) ==
    \E row \in acl : row.user = u /\ row.resource = r /\ a \in row.actions

PairFacts(u, r) == {<<u, r, a>> : a \in Actions}

\* the actions of the rule of (u, r), none when there is no rule
RuleActions(u, r) == {a \in Actions : StoreGrants(u, r, a)}

\* a write of (u, r) begins: it supersedes the earlier writes and repairs
Supersede(u, r) ==
    /\ revoked' = revoked \ PairFacts(u, r)
    /\ repaired' = repaired \ PairFacts(u, r)

\* the write c of goroutine t returns nil: alone on its pair, it is the
\* latest write of the pair
Completes(t, c) ==
    revoked' = IF WriteInFlight(t, c.u, c.r) THEN revoked
               ELSE revoked \cup {<<c.u, c.r, a>> : a \in c.gone}

NonEmptyActionSets == SUBSET Actions \ {{}}

(***************************************************************************)
(* NewStore: newMemoryCache, then syncCache (roles first, then rules).     *)
(***************************************************************************)
\* syncCache: GetAllUserRoles fails, NewStore returns the error
SyncCacheRolesFail ==
    /\ ctor = "new"
    /\ ctor' = "failed"
    /\ UNCHANGED <<acl, userRole, policy, grouping, th, last, ops, hist>>

\* syncCache: GetAllUserRoles, loadRoles
SyncCacheRoles ==
    /\ ctor = "new"
    /\ grouping' = loadRoles(grouping, userRole, Users)
    /\ ctor' = "rolesLoaded"
    /\ UNCHANGED <<acl, userRole, policy, th, last, ops, hist>>

\* syncCache: GetAllPermissions fails, NewStore returns the error
SyncCachePermissionsFail ==
    /\ ctor = "rolesLoaded"
    /\ ctor' = "failed"
    /\ UNCHANGED <<acl, userRole, policy, grouping, th, last, ops, hist>>

\* syncCache: GetAllPermissions, the add loop; NewStore returns the Store
SyncCachePermissions ==
    /\ ctor = "rolesLoaded"
    /\ policy' = loadPermissions(policy, acl)
    /\ ctor' = "ready"
    /\ UNCHANGED <<acl, userRole, grouping, th, last, ops, hist>>

(***************************************************************************)
(* aclcache.Store.Create                                                   *)
(***************************************************************************)
\* variant of Create that fills the enforcer before it looks at the Store's
\* answer (C3 must tell it from the code)
CreateStore_CacheFirst(t, u, r, ty, acts, fail) ==
    LET err == IF fail THEN ErrInternal ELSE DBCreateErr(u, r, ty)
        c == [Call("Create", u, r, ty, "-", "-") EXCEPT !.acts = acts, !.calls = 1]
    IN /\ CanBegin(t)
       /\ acl' = IF fail THEN acl ELSE DBCreate(u, r, ty, acts)
       /\ policy' = policy \cup {<<u, resolveObject(ty, r), a>> : a \in acts}
       /\ IF err # "nil" THEN Returns(t, c, err, "-")
                         ELSE Goes(t, [c EXCEPT !.pc = "add", !.todo = acts])
       /\ ops' = ops + 1
       /\ Supersede(u, r)
       /\ deleted' = IF err = "nil" THEN deleted \ {<<u, r>>} ELSE deleted
       /\ UNCHANGED <<userRole, grouping, ctor>>

\* s.storer.Create; on an error the call returns it
CreateStore(t, u, r, ty, acts, fail) ==
    LET err == IF fail THEN ErrInternal ELSE DBCreateErr(u, r, ty)
        c == [Call("Create", u, r, ty, "-", "-") EXCEPT !.acts = acts, !.calls = 1]
    IN /\ CanBegin(t)
       /\ acl' = IF fail THEN acl ELSE DBCreate(u, r, ty, acts)
       /\ IF err # "nil" THEN Returns(t, c, err, "-")
                         ELSE Goes(t, [c EXCEPT !.pc = "add", !.todo = acts])
       /\ ops' = ops + 1
       /\ Supersede(u, r)
       /\ deleted' = IF err = "nil" THEN deleted \ {<<u, r>>} ELSE deleted
       /\ UNCHANGED <<userRole, policy, grouping, ctor>>

\* variant of the add loop that returns after its first iteration (C12 must
\* tell it from the code)
CacheAdd_OnceOnly(t) ==
    /\ th[t].pc = "add"
    /\ \E a \in th[t].todo :
          LET c == th[t]
          IN /\ policy' = add(policy, c.u, c.t, c.r, a)
             /\ Returns(t, c, "nil", "-")
             /\ Completes(t, c)
    /\ UNCHANGED <<acl, userRole, grouping, ctor, ops, deleted, repaired>>

\* one iteration of "for _, act := range Actions { s.cache.add(...) }" of
\* Create and Update; after the last one the call returns nil
CacheAdd(t) ==
    /\ th[t].pc = "add"
    /\ \E a \in th[t].todo :
          LET c == th[t]
              rest == c.todo \ {a}
          IN /\ policy' = add(policy, c.u, c.t, c.r, a)
             /\ IF rest = {} THEN Returns(t, c, "nil", "-")
                             ELSE Goes(t, [c EXCEPT !.todo = rest])
             /\ IF rest = {} THEN Completes(t, c) ELSE revoked' = revoked
    /\ UNCHANGED <<acl, userRole, grouping, ctor, ops, deleted, repaired>>

(***************************************************************************)
(* aclcache.Store.Update                                                   *)
(***************************************************************************)
\* s.storer.Update; on an error the call returns it
UpdateStore(t, u, r, ty, acts, fail) ==
    LET c == [Call("Update", u, r, ty, "-", "-") EXCEPT
                 !.acts = acts, !.calls = 1,
                 !.old = IF fail THEN {}
                         ELSE {a \in Actions : DBValidateAccess(u, r, ty, a)},
                 !.gone = IF fail \/ DBUpdate(u, r, ty, acts) = acl THEN {}
                          ELSE RuleActions(u, r) \ acts]
    IN /\ CanBegin(t)
       /\ acl' = IF fail THEN acl ELSE DBUpdate(u, r, ty, acts)
       /\ IF fail THEN Returns(t, c, ErrInternal, "-")
                  ELSE Goes(t, [c EXCEPT !.pc = "clear", !.todo = acts])
       /\ ops' = ops + 1
       /\ Supersede(u, r)
       /\ UNCHANGED <<userRole, policy, grouping, ctor, deleted>>

\* s.cache.clearInstanceRules of Update (the add loop follows) and of Delete
\* (the call returns nil)
CacheClear(t) ==
    LET c == th[t]
    IN /\ c.pc = "clear"
       /\ policy' = clearInstanceRules(policy, c.u, c.r)
       /\ IF c.op = "Delete" THEN Returns(t, c, "nil", "-")
                             ELSE Goes(t, [c EXCEPT !.pc = "add"])
       /\ IF c.op = "Delete" THEN Completes(t, c) ELSE revoked' = revoked
       /\ deleted' = IF c.op = "Delete" THEN deleted \cup {<<c.u, c.r>>} ELSE deleted
       /\ UNCHANGED <<acl, userRole, grouping, ctor, ops, repaired>>

(***************************************************************************)
(* aclcache.Store.Delete                                                   *)
(***************************************************************************)
\* s.storer.Delete; on an error the call returns it
DeleteStore(t, u, r, fail) ==
    LET c == [Call("Delete", u, r, "-", "-", "-") EXCEPT
                 !.calls = 1, !.gone = IF fail THEN {} ELSE RuleActions(u, r)]
    IN /\ CanBegin(t)
       /\ acl' = IF fail THEN acl ELSE DBDelete(u, r)
       /\ IF fail THEN Returns(t, c, ErrInternal, "-")
                  ELSE Goes(t, [c EXCEPT !.pc = "clear"])
       /\ ops' = ops + 1
       /\ Supersede(u, r)
       /\ UNCHANGED <<userRole, policy, grouping, ctor, deleted>>

(***************************************************************************)
(* aclcache.Store.ValidateAccess and ValidateAccessToResource              *)
(***************************************************************************)
\* what made the enforcer say yes
Via(g, u, scope) == IF HasLink(g, u, RoleName("ADMIN")) THEN "bypass" ELSE scope

\* ValidateAccess: s.cache.check, the Enforce on the instance object; a yes
\* returns nil at once.  The result is marked stale when the instance fact
\* decided and the latest write of the pair, completed, took the action away.
ValidateAccessCheckInstance(t, u, r, ty, a) ==
    LET c == Call("ValidateAccess", u, r, ty, a, "-")
        via == Via(grouping, u, "instance")
    IN /\ CanBegin(t)
       /\ IF checkInstance(policy, grouping, u, r, a)
          THEN /\ th' = [th EXCEPT ![t] = Idle]
               /\ last' = [Result(c, "nil", via) EXCEPT
                             !.stale = via = "instance" /\ <<u, r, a>> \in revoked]
          ELSE Goes(t, [c EXCEPT !.pc = "type"])
       /\ ops' = ops + 1
       /\ UNCHANGED <<acl, userRole, policy, grouping, ctor, hist>>

\* ValidateAccess: s.cache.check, the Enforce on the resource type
ValidateAccessCheckType(t) ==
    LET c == th[t]
    IN /\ c.pc = "type"
       /\ IF checkType(policy, grouping, c.u, c.t, c.a)
          THEN Returns(t, c, "nil", Via(grouping, c.u, "type"))
          ELSE Goes(t, [c EXCEPT !.pc = "store"])
       /\ UNCHANGED <<acl, userRole, policy, grouping, ctor, ops, hist>>

\* ValidateAccessToResource: s.cache.check with uuid.Nil
ValidateAccessToResourceCheck(t, u, ty, a) ==
    LET c == Call("ValidateAccessToResource", u, NilID, ty, a, "-")
    IN /\ CanBegin(t)
       /\ IF checkInstance(policy, grouping, u, NilID, a)
          THEN Returns(t, c, "nil", Via(grouping, u, "instance"))
          ELSE IF checkType(policy, grouping, u, ty, a)
          THEN Returns(t, c, "nil", Via(grouping, u, "type"))
          ELSE Goes(t, [c EXCEPT !.pc = "store"])
       /\ ops' = ops + 1
       /\ UNCHANGED <<acl, userRole, policy, grouping, ctor, hist>>


\* variant in which an error of Enforce is taken for a denial: the check
\* returns ErrAccessDenied without asking the Store (C39 must tell it from
\* the code)
ValidateAccessCheckTypeFails_AsDenial(t) ==
    LET c == [th[t] EXCEPT !.fault = TRUE]
    IN /\ c.pc = "type"
       /\ Returns(t, c, ErrAccessDenied, "type")
       /\ UNCHANGED <<acl, userRole, policy, grouping, ctor, ops, hist>>

\* ValidateAccess: the Enforce on the instance object returns an error;
\* s.cache.check returns it without the second Enforce, and the Coordinator
\* goes to the Store
ValidateAccessCheckInstanceFails(t, u, r, ty, a) ==
    LET c == Call("ValidateAccess", u, r, ty, a, "-")
    IN /\ CanBegin(t)
       /\ Goes(t, [c EXCEPT !.pc = "store", !.fault = TRUE])
       /\ ops' = ops + 1
       /\ UNCHANGED <<acl, userRole, policy, grouping, ctor, hist>>

\* ValidateAccess: the Enforce on the resource type returns an error
ValidateAccessCheckTypeFails(t) ==
    LET c == [th[t] EXCEPT !.fault = TRUE]
    IN /\ c.pc = "type"
       /\ Goes(t, [c EXCEPT !.pc = "store"])
       /\ UNCHANGED <<acl, userRole, policy, grouping, ctor, ops, hist>>

\* ValidateAccessToResource: the Enforce on the resource type returns an error
ValidateAccessToResourceCheckFails(t, u, ty, a) ==
    LET c == Call("ValidateAccessToResource", u, NilID, ty, a, "-")
    IN /\ CanBegin(t)
       /\ Goes(t, [c EXCEPT !.pc = "store", !.fault = TRUE])
       /\ ops' = ops + 1
       /\ UNCHANGED <<acl, userRole, policy, grouping, ctor, hist>>

\* the answer of the Store to the check of call c
DBCheck(c) ==
    IF c.op = "ValidateAccess"
    THEN (IF DBValidateAccess(c.u, c.r, c.t, c.a) THEN "nil" ELSE ErrAccessDenied)
    ELSE (IF DBValidateAccessToResource(c.u, c.t, c.a) THEN "nil" ELSE ErrAccessDenied)

\* variant of the fallback that records the checked tuple whatever the Store
\* answers (C4 must tell it from the code)
StoreCheck_CachesAnswer(t, fail) ==
    LET c == [th[t] EXCEPT !.calls = @ + 1]
        err == IF fail THEN ErrInternal ELSE DBCheck(c)
    IN /\ th[t].pc = "store"
       /\ policy' = add(policy, c.u, c.t, c.r, c.a)
       /\ IF err # "nil" THEN Returns(t, c, err, "store")
                         ELSE Goes(t, [c EXCEPT !.pc = "repair"])
       /\ UNCHANGED <<acl, userRole, grouping, ctor, ops, hist>>

\* variant of the fallback that reports a failure of the Store as a denial
\* (C19 must tell it from the code)
StoreCheck_FailureAsDenial(t, fail) ==
    LET c == [th[t] EXCEPT !.calls = @ + 1]
        err == IF fail THEN ErrAccessDenied ELSE DBCheck(c)
    IN /\ th[t].pc = "store"
       /\ IF err # "nil" THEN Returns(t, c, err, "store")
                         ELSE Goes(t, [c EXCEPT !.pc = "repair"])
       /\ UNCHANGED <<acl, userRole, policy, grouping, ctor, ops, hist>>

\* the fallback s.storer.ValidateAccess / ValidateAccessToResource; an error
\* (a denial or a failure) is returned as it is
StoreCheck(t, fail) ==
    LET c == [th[t] EXCEPT !.calls = @ + 1]
        err == IF fail THEN ErrInternal ELSE DBCheck(c)
    IN /\ th[t].pc = "store"
       /\ IF err # "nil" THEN Returns(t, c, err, "store")
                         ELSE Goes(t, [c EXCEPT !.pc = "repair"])
       /\ UNCHANGED <<acl, userRole, policy, grouping, ctor, ops, hist>>

\* variant of the self-repair that returns nil without the add (C5 must tell
\* it from the code)
CacheRepair_Forgets(t) ==
    LET c == th[t]
    IN /\ c.pc = "repair"
       /\ Returns(t, c, "nil", "store")
       /\ repaired' = IF c.r = NilID THEN repaired ELSE repaired \cup {<<c.u, c.r, c.a>>}
       /\ UNCHANGED <<acl, userRole, policy, grouping, ctor, ops, revoked, deleted>>

\* self-repair: s.cache.add of the checked tuple, then return nil
CacheRepair(t) ==
    LET c == th[t]
    IN /\ c.pc = "repair"
       /\ policy' = add(policy, c.u, c.t, c.r, c.a)
       /\ Returns(t, c, "nil", "store")
       /\ repaired' = IF c.r = NilID THEN repaired ELSE repaired \cup {<<c.u, c.r, c.a>>}
       /\ UNCHANGED <<acl, userRole, grouping, ctor, ops, revoked, deleted>>

\* variant in which the self-repair returns the error of AddPolicy to the
\* caller of the check (C26 must tell it from the code)
CacheRepairFails_Surfaced(t) ==
    LET c == th[t]
    IN /\ c.pc = "repair"
       /\ Returns(t, c, ErrInternal, "store")
       /\ UNCHANGED <<acl, userRole, policy, grouping, ctor, ops, hist>>

\* self-repair when enforcer.AddPolicy returns an error: memoryCache.add logs
\* it and returns nothing, the check returns nil
CacheRepairFails(t) ==
    LET c == th[t]
    IN /\ c.pc = "repair"
       /\ Returns(t, c, "nil", "store")
       /\ UNCHANGED <<acl, userRole, policy, grouping, ctor, ops, hist>>

(***************************************************************************)
(* aclcache.Store.SyncUserRole and the role of record                      *)
(***************************************************************************)
\* s.storer.SyncUserRole: acldb's is a no-op that returns nil
SyncUserRoleStore(t, u, role) ==
    LET c == [Call("SyncUserRole", u, "-", "-", "-", role) EXCEPT !.calls = 1]
    IN /\ CanBegin(t)
       /\ Goes(t, [c EXCEPT !.pc = "rmrole"])
       /\ ops' = ops + 1
       /\ UNCHANGED <<acl, userRole, policy, grouping, ctor, hist>>

\* setUserRole: RemoveFilteredGroupingPolicy(0, sub)
CacheRemoveRole(t) ==
    LET c == th[t]
    IN /\ c.pc = "rmrole"
       /\ grouping' = removeUserRoles(grouping, c.u)
       /\ Goes(t, [c EXCEPT !.pc = "addrole", !.gone = RolesOf(grouping, c.u)])
       /\ UNCHANGED <<acl, userRole, policy, ctor, ops, hist>>

\* setUserRole: AddGroupingPolicy(sub, roleName); SyncUserRole returns nil
CacheAddRole(t) ==
    LET c == th[t]
    IN /\ c.pc = "addrole"
       /\ grouping' = addUserRole(grouping, c.u, c.role)
       /\ Returns(t, c, "nil", "-")
       /\ UNCHANGED <<acl, userRole, policy, ctor, ops, hist>>

(***************************************************************************)
(* The enforcer is a casbin.Enforcer, which has no lock of its own, and    *)
(* memoryCache adds none: a call on it takes time, and nothing keeps       *)
(* another goroutine out meanwhile.                                        *)
(***************************************************************************)
\* the call on the enforcer that goroutine t makes next: a read (Enforce)
\* or a write (AddPolicy, RemoveFilteredPolicy, the grouping calls)
EngineCall(t) ==
    IF th[t].pc = "type" THEN "read"
    ELSE IF th[t].pc \in {"add", "clear", "repair", "rmrole", "addrole"} THEN "write"
    ELSE "out"

\* goroutine t enters its next call on the enforcer; the step of the call
\* itself (CacheAdd, CacheClear, ...) is then its effect and its return
EnterEngine(t) ==
    /\ th[t].eng = "out"
    /\ EngineCall(t) # "out"
    /\ th' = [th EXCEPT ![t].eng = EngineCall(t)]
    /\ UNCHANGED <<acl, userRole, policy, grouping, ctor, last, ops, hist>>

\* goroutine t is inside a write of the enforcer while goroutine o is inside
\* a read or a write of it
Races(t, o) == t # o /\ th[t].eng = "write" /\ th[o].eng # "out"

\* a data race on the enforcer's maps and slices: one outcome is that the
\* calls go on as if one had run before the other (the steps of the calls),
\* the other that the runtime ends the process, and the call of o, like
\* every call in progress, gives its caller no answer
EnginePanic(t, o) ==
    /\ Races(t, o)
    /\ th' = [x \in Threads |-> Idle]
    /\ last' = [Result(th[o], Panic, "-") EXCEPT !.core = <<Panic>>]
    /\ ctor' = "crashed"
    /\ policy' = {}
    /\ grouping' = {}
    /\ UNCHANGED <<acl, userRole, ops, hist>>

\* userbus.Core.Update with a Role: the role of record changes in "users"
UserUpdateRole(u, role) ==
    /\ ctor = "ready"
    /\ userRole[u] # role
    /\ userRole' = [userRole EXCEPT ![u] = role]
    /\ ops' = ops + 1
    /\ UNCHANGED <<acl, policy, grouping, ctor, th, last, hist>>

(***************************************************************************)
(* Specifications                                                          *)
(***************************************************************************)
(***************************************************************************)
(* The Authorize middleware of a route and Auth.Authorize (the double      *)
(* guard over the enforcer of Auth).  A request is a verb, the user id that *)
(* Authenticate left in the context or nothing, and the value of the path's *)
(* "id" wildcard ("" when the path has none).                              *)
(***************************************************************************)
Methods == {"GET", "POST", "PUT", "PATCH", "DELETE", "HEAD"}

\* the same ids written in upper case, a form uuid.Parse accepts too
UpperNames == <<"R1", "R2", "R3">>

\* path values: none, an id in the form UUID.String() gives, the same id in
\* upper case, an id that is not in a proper form
PathIDs == {"", ResourceNames[1], UpperNames[1], "not-a-uuid"}

\* the resource of the route
RouteResource == "DASHBOARD"

\* error codes of the responses
Unauthenticated == "Unauthenticated"
FailedPrecondition == "FailedPrecondition"
PermissionDenied == "PermissionDenied"
ErrInvalidAuthorization == "ErrInvalidAuthorization"

\* the enforcer field of an Auth that nothing has set (auth.New leaves it
\* nil), and one that holds the facts p
NilEnforcer == [set |-> FALSE, facts |-> {}]

EnforcerOf(p) == [set |-> TRUE, facts |-> p]

\* the facts an enforcer of Auth may hold for a user on the route's resource
AuthFacts ==
    {<<u, obj, a>> : u \in Users, obj \in {RouteResource, ResourceNames[1]},
                     a \in {"GET", "UPDATE"}}

\* variant of the mapping that takes HEAD for a GET (C27 must tell it from
\* the code)
mapHTTPMethodToAction_HeadAsGet(method) ==
    CASE method \in {"GET", "HEAD"} -> "GET"
      [] method = "POST" -> "CREATE"
      [] method \in {"PUT", "PATCH"} -> "UPDATE"
      [] method = "DELETE" -> "DELETE"

\* mapHTTPMethodToAction: the action of the verb, "error" for any other verb
mapHTTPMethodToAction(method) ==
    CASE method = "GET" -> "GET"
      [] method = "POST" -> "CREATE"
      [] method \in {"PUT", "PATCH"} -> "UPDATE"
      [] method = "DELETE" -> "DELETE"
      [] OTHER -> "error"

\* web.Param(r, key): the value of the wildcard named key, "" when the path
\* has no wildcard of that name
Param(id, key) == IF key = "id" THEN id ELSE ""

\* uuid.Parse succeeds
ParsesAsUUID(id) ==
    \E i \in 1..NumResources : id \in {ResourceNames[i], UpperNames[i]}

\* uuid.Parse(id).String(): the id in lower case
ParsedString(id) ==
    LET i == CHOOSE i \in 1..NumResources : id \in {ResourceNames[i], UpperNames[i]}
    IN ResourceNames[i]

\* Auth.performCheck: Enforce on the enforcer of Auth; a nil enforcer is a nil
\* pointer dereference
performCheck(e, sub, obj, act) ==
    IF ~e.set THEN Panic
    ELSE IF <<sub, obj, act>> \in e.facts THEN "nil"
    ELSE ErrInvalidAuthorization

\* variant of Authorize that, given an id, asks about the instance only (C33
\* must tell it from the code)
AuthAuthorize_InstanceOnly(e, uid, res, act, resourceID) ==
    IF resourceID = ""
    THEN [err |-> performCheck(e, uid, res, act), checks |-> <<res>>]
    ELSE IF ~ParsesAsUUID(resourceID)
    THEN [err |-> FailedPrecondition, checks |-> <<>>]
    ELSE [err |-> performCheck(e, uid, ParsedString(resourceID), act),
          checks |-> <<ParsedString(resourceID)>>]

\* Auth.Authorize: the error it returns and the objects it asked the
\* enforcer about, in order
AuthAuthorize(e, uid, res, act, resourceID) ==
    LET stage1 == performCheck(e, uid, res, act)
    IN IF stage1 # "nil" THEN [err |-> stage1, checks |-> <<res>>]
       ELSE IF resourceID = "" THEN [err |-> "nil", checks |-> <<res>>]
       ELSE IF ~ParsesAsUUID(resourceID)
       THEN [err |-> FailedPrecondition, checks |-> <<res>>]
       ELSE [err |-> performCheck(e, uid, ParsedString(resourceID), act),
             checks |-> <<res, ParsedString(resourceID)>>]

\* no request has been answered
NoResponse ==
    [method |-> "-", user |-> "-", id |-> "", act |-> "-", rid |-> "",
     code |-> "-", err |-> "-", checks |-> <<>>, next |-> FALSE]

\* mid.Authorize(ath, res, idKey): the middleware value of a route
NewMiddleware(e, idKey) == [enforcer |-> e, idKey |-> idKey, resp |-> NoResponse]

\* the handler of mid.Authorize for one request; uid is "" when the context
\* holds no user id.  idKey is the variable of the enclosing function, which
\* every request of the route shares: the handler assigns to it.
Authorize(method, uid, id) ==
    LET act == mapHTTPMethodToAction(method)
        key == IF mw.idKey # "" THEN Param(id, mw.idKey) ELSE mw.idKey
        res == AuthAuthorize(mw.enforcer, uid, RouteResource, act, key)
        rsp == [NoResponse EXCEPT !.method = method, !.user = uid, !.id = id]
    IN /\ mw' =
            IF uid = ""
            THEN [mw EXCEPT !.resp = [rsp EXCEPT !.code = Unauthenticated]]
            ELSE IF act = "error"
            THEN [mw EXCEPT !.resp = [rsp EXCEPT !.code = FailedPrecondition]]
            ELSE [mw EXCEPT
                    !.idKey = key,
                    !.resp = [rsp EXCEPT
                                !.act = act,
                                !.rid = key,
                                !.err = res.err,
                                !.checks = res.checks,
                                !.code = IF res.err = "nil" THEN "OK"
                                         ELSE IF res.err = Panic THEN Panic
                                         ELSE PermissionDenied,
                                !.next = res.err = "nil"]]
       /\ UNCHANGED <<acl, userRole, policy, grouping, ctor, th, last, ops, hist, tx, req, enf>>


(***************************************************************************)
(* The rules of the enforcer as casbin keeps them: a list, in the order    *)
(* they were added.                                                        *)
(***************************************************************************)
\* casbin.NewEnforcer(m): no rule, no call made
NewEnforcer == [rules |-> <<>>, op |-> "-", rule |-> <<>>, before |-> <<>>, err |-> "-"]

\* the rules of a list
RulesOf(rules) == {rules[i] : i \in DOMAIN rules}

\* variant of AddPolicy that appends the rule without looking for it (C38
\* must tell it from the code)
AddPolicy_Appends(rules, rule) == Append(rules, rule)

\* enforcer.AddPolicy(sub, obj, act): a rule the list has is not added again,
\* and that is no error
AddPolicy(rules, rule) ==
    IF rule \in RulesOf(rules) THEN rules ELSE Append(rules, rule)

\* enforcer.RemoveFilteredPolicy(0, sub, obj): every rule whose first two
\* fields are sub and obj goes
RemoveFilteredPolicy(rules, sub, obj) ==
    LET keeps(rule) == ~(rule[1] = sub /\ rule[2] = obj)
    IN SelectSeq(rules, keeps)

\* memoryCache.add on the list
AddFact(u, t, id, a) ==
    LET rule == <<u, resolveObject(t, id), a>>
    IN /\ Len(enf.rules) < MaxRules
       /\ enf' = [rules |-> AddPolicy(enf.rules, rule), op |-> "add",
                  rule |-> rule, before |-> enf.rules, err |-> "nil"]
       /\ UNCHANGED <<acl, userRole, policy, grouping, ctor, th, last, ops, hist, mw, tx, req>>

\* memoryCache.clearInstanceRules on the list
RemoveFacts(u, id) ==
    /\ enf' = [rules |-> IF id = NilID THEN enf.rules
                         ELSE RemoveFilteredPolicy(enf.rules, u, id),
               op |-> "remove", rule |-> <<u, id>>, before |-> enf.rules,
               err |-> "nil"]
    /\ UNCHANGED <<acl, userRole, policy, grouping, ctor, th, last, ops, hist, mw, tx, req>>

(***************************************************************************)
(* A request passing the middleware chain of a route: mid.Authenticate,    *)
(* the role-based mid.Authorize, mid.BeginCommitRollback, the handler.     *)
(***************************************************************************)
\* ids a token may carry
TenantIDs == {"t1"}
DashboardIDs == {"d1"}

\* the authorization header: missing, another scheme, "Bearer <token>",
\* "bearer <token>"
Headers == {"", "Basic", "Bearer", "bearer"}

\* the role of a token: a role of the system, or a name that is none
TokenRoles == Roles \cup {"GUEST"}

\* auth.Claims; verifies: the signature, the registered claims and the
\* user's enabled flag all pass
Tokens ==
    [Subject : Users \cup {"not-a-uuid"},
     TenantID : TenantIDs \cup {"", "not-a-uuid"},
     DashboardID : DashboardIDs \cup {"not-a-uuid"},
     Role : TokenRoles,
     verifies : BOOLEAN]

\* auth.Claims{}
NoClaims ==
    [Subject |-> "", TenantID |-> "", DashboardID |-> "", Role |-> "",
     verifies |-> FALSE]

\* the allowedRoles of a route: mid.Authorize(ath), mid.Authorize(ath, r1),
\* mid.Authorize(ath, r1, r2)
MaxAllowedRoles == 2

RoleLists == UNION {[1..n -> Roles] : n \in 0..MaxAllowedRoles}

ErrForbidden == "ErrForbidden"
ErrInvalidRole == "ErrInvalidRole"
Internal == "Internal"
NotFound == "not found"

\* uuid.Parse succeeds on the ids of users, tenants and dashboards
IsUUID(id) == id \in Users \cup TenantIDs \cup DashboardIDs

\* context.Background(): no value under any key of package mid
EmptyContext ==
    [claimKey |-> NoClaims, userIDKey |-> NotFound, keyTenantID |-> NotFound,
     dashboardID |-> NotFound, trKey |-> FALSE]

setUserID(ctx, userID) == [ctx EXCEPT !.userIDKey = userID]

setTenantID(ctx, tenantID) == [ctx EXCEPT !.keyTenantID = tenantID]

\* setDashboardID stores under keyTenantID
setDashboardID(ctx, id) == [ctx EXCEPT !.keyTenantID = id]

setClaims(ctx, claims) == [ctx EXCEPT !.claimKey = claims]

setTran(ctx) == [ctx EXCEPT !.trKey = TRUE]

\* GetTenantID: the value under keyTenantID, uuid.Nil and an error without one
GetTenantID(ctx) ==
    IF ctx.keyTenantID = NotFound THEN [v |-> NilID, err |-> NotFound]
    ELSE [v |-> ctx.keyTenantID, err |-> "nil"]

\* GetDashboardID reads keyTenantID
GetDashboardID(ctx) ==
    IF ctx.keyTenantID = NotFound THEN [v |-> NilID, err |-> NotFound]
    ELSE [v |-> ctx.keyTenantID, err |-> "nil"]

GetClaims(ctx) == ctx.claimKey

\* auth.Auth.Authenticate: the claims of the token, or an error
AuthAuthenticate(header, token) ==
    IF header # "Bearer" THEN "error"
    ELSE IF ~token.verifies THEN "error"
    ELSE IF token.Role \notin Roles THEN ErrInvalidRole
    ELSE "nil"

\* variant of the role check that lets every caller through a route mounted
\* with no role (C34 must tell it from the code)
AuthAuthorizeRoles_OpenByDefault(claims, allowedRoles) ==
    IF Len(allowedRoles) = 0 THEN "nil"
    ELSE IF \E i \in 1..Len(allowedRoles) : claims.Role = allowedRoles[i] THEN "nil"
    ELSE ErrForbidden

\* the role-based Auth.Authorize(ctx, claims, allowedRoles...)
AuthAuthorizeRoles(claims, allowedRoles) ==
    IF Len(allowedRoles) = 0 THEN ErrForbidden
    ELSE IF \E i \in 1..Len(allowedRoles) : claims.Role = allowedRoles[i] THEN "nil"
    ELSE ErrForbidden

\* a transaction of the database: Commit called or not, committed or not,
\* rolled back or not
NoTx == [begun |-> FALSE, commits |-> 0, committed |-> FALSE, rolledBack |-> FALSE]

\* tx.Commit(): at most one of Commit and Rollback ends a transaction
Commit(txn, fail) ==
    [txn EXCEPT !.commits = @ + 1,
                !.committed = ~fail /\ ~txn.rolledBack]

\* variant of the deferred call that undoes the transaction whether or not
\* it was committed (C35 must tell it from the code)
Rollback_Always(txn) == [txn EXCEPT !.committed = FALSE, !.rolledBack = TRUE]

\* the deferred tx.Rollback(): after a Commit it returns sql.ErrTxDone and
\* changes nothing
Rollback(txn) ==
    IF txn.commits > 0 THEN txn ELSE [txn EXCEPT !.rolledBack = TRUE]

\* no request is in the chain
NoRequest ==
    [stage |-> "idle", roles |-> <<>>, ctx |-> EmptyContext, authn |-> "-",
     authz |-> "-", txn |-> NoTx, handler |-> "-", code |-> "-"]

\* a request arrives on a route mounted with allowedRoles and with or
\* without mid.Authenticate before mid.Authorize
Arrive(authen, allowedRoles) ==
    /\ req.stage \in {"idle", "done"}
    /\ req' = [NoRequest EXCEPT !.stage = IF authen THEN "authn" ELSE "authz",
                                !.roles = allowedRoles]
    /\ UNCHANGED <<acl, userRole, policy, grouping, ctor, th, last, ops, hist, mw, tx, enf>>

\* the answer of a middleware that does not call next
Responds(code) == [req EXCEPT !.stage = "done", !.code = code]

\* the handler of mid.Authenticate
Authenticate(header, token) ==
    LET err == AuthAuthenticate(header, token)
        tdID == IF token.TenantID = "" THEN NilID ELSE token.TenantID
        ctx == setClaims(setDashboardID(setTenantID(setUserID(req.ctx,
                   token.Subject), tdID), token.DashboardID), token)
    IN /\ req.stage = "authn"
       /\ req' =
            IF \/ header \notin {"Bearer", "bearer"}
               \/ err # "nil"
               \/ ~IsUUID(token.Subject)
               \/ ~IsUUID(token.DashboardID)
               \/ (token.TenantID # "" /\ ~IsUUID(token.TenantID))
            THEN [Responds(Unauthenticated) EXCEPT !.authn = "error"]
            ELSE [req EXCEPT !.stage = "authz", !.authn = "nil", !.ctx = ctx]
       /\ UNCHANGED <<acl, userRole, policy, grouping, ctor, th, last, ops, hist, mw, tx, enf>>

\* the handler of the role-based mid.Authorize
AuthorizeRole ==
    LET claims == GetClaims(req.ctx)
        err == AuthAuthorizeRoles(claims, req.roles)
    IN /\ req.stage = "authz"
       /\ req' =
            IF claims.Subject = "" THEN Responds(Unauthenticated)
            ELSE IF err # "nil"
            THEN [Responds(PermissionDenied) EXCEPT !.authz = err]
            ELSE [req EXCEPT !.stage = "begin", !.authz = "nil"]
       /\ UNCHANGED <<acl, userRole, policy, grouping, ctor, th, last, ops, hist, mw, tx, enf>>

\* BeginCommitRollback: bgn.Begin(); on an error the handler returns before
\* it defers the rollback
Begin(fail) ==
    /\ req.stage = "begin"
    /\ req' = IF fail THEN Responds(Internal)
              ELSE [req EXCEPT !.stage = "handler", !.txn.begun = TRUE,
                               !.ctx = setTran(req.ctx)]
    /\ UNCHANGED <<acl, userRole, policy, grouping, ctor, th, last, ops, hist, mw, tx, enf>>

\* checkIsError(resp): the response of the handler is an error
checkIsError(outcome) == outcome = "error"

\* BeginCommitRollback: resp := next(ctx, r), and what follows it: an error
\* response is returned as it is, a panic leaves the function, and both run
\* the deferred rollback; any other response leads to the commit
Handler(outcome) ==
    /\ req.stage = "handler"
    /\ req' =
         IF outcome = "panic"
         THEN [Responds(Panic) EXCEPT !.handler = outcome, !.txn = Rollback(req.txn)]
         ELSE IF checkIsError(outcome)
         THEN [Responds("HandlerError") EXCEPT
                  !.handler = outcome, !.txn = Rollback(req.txn)]
         ELSE [req EXCEPT !.stage = "commit", !.handler = outcome]
    /\ UNCHANGED <<acl, userRole, policy, grouping, ctor, th, last, ops, hist, mw, tx, enf>>

\* BeginCommitRollback: tx.Commit(), then the deferred rollback
CommitOrFail(fail) ==
    /\ req.stage = "commit"
    /\ req' = [Responds(IF fail THEN Internal ELSE "OK") EXCEPT
                  !.txn = Rollback(Commit(req.txn, fail))]
    /\ UNCHANGED <<acl, userRole, policy, grouping, ctor, th, last, ops, hist, mw, tx, enf>>

(***************************************************************************)
(* mid.BeginCommitRollback around calls on a Coordinator made by NewWithTx *)
(***************************************************************************)
\* no transaction is open; n counts the transactions begun, rolled is the
\* history of the grants (instance facts the Engine was given for rows the
\* transaction wrote) of the transactions rolled back so far
NoTransaction == [open |-> FALSE, saved |-> {}, had |-> {}, n |-> 0, rolled |-> {}]

\* bgn.Begin(): the rows written from now on are undone by a rollback
BeginTransaction ==
    /\ ctor = "ready"
    /\ \A t \in Threads : th[t].pc = "idle"
    /\ ~tx.open
    /\ tx.n < MaxTransactions
    /\ tx' = [tx EXCEPT !.open = TRUE, !.saved = acl, !.had = policy, !.n = @ + 1]
    /\ UNCHANGED <<acl, userRole, policy, grouping, ctor, th, last, ops, hist, mw, req, enf>>

\* the facts the Engine got since Begin for rows the transaction holds
GrantsOfTransaction ==
    {rule \in policy \ tx.had :
        /\ rule[2] \in ResourceIDs
        /\ StoreGrants(rule[1], rule[2], rule[3])
        /\ \A row \in tx.saved :
              row.user = rule[1] /\ row.resource = rule[2] => rule[3] \notin row.actions}

\* tx.Commit() after the handler returned no error
CommitTransaction ==
    /\ tx.open
    /\ \A t \in Threads : th[t].pc = "idle"
    /\ tx' = [tx EXCEPT !.open = FALSE, !.saved = {}, !.had = {}]
    /\ UNCHANGED <<acl, userRole, policy, grouping, ctor, th, last, ops, hist, mw, req, enf>>

\* the deferred tx.Rollback(): the handler returned an error response, or
\* tx.Commit() failed
RollbackTransaction ==
    /\ tx.open
    /\ \A t \in Threads : th[t].pc = "idle"
    /\ acl' = tx.saved
    /\ tx' = [tx EXCEPT !.open = FALSE, !.saved = {}, !.had = {},
                        !.rolled = @ \cup GrantsOfTransaction]
    /\ UNCHANGED <<userRole, policy, grouping, ctor, th, last, ops, hist, mw, req, enf>>

\* contents of "acl" over resources R that satisfy its primary key
\* (resource_id, user_id) and its foreign key to "resource"
ACLTables(R) ==
    LET rows == {Row(u, r, ResourceTypeOf(r), acts) :
                    u \in Users, r \in R, acts \in NonEmptyActionSets}
    IN {tab \in SUBSET rows :
           \A x, y \in tab : x.user = y.user /\ x.resource = y.resource => x = y}

\* before NewStore: any contents of the database, an empty enforcer
InitOver(R) ==
    /\ acl \in ACLTables(R)
    /\ userRole \in [Users -> Roles]
    /\ policy = {}
    /\ grouping = {}
    /\ ctor = "new"
    /\ th = [t \in Threads |-> Idle]
    /\ last = NoResult
    /\ ops = 0
    /\ revoked = {}
    /\ deleted = {}
    /\ repaired = {}
    /\ mw = NewMiddleware(NilEnforcer, "")
    /\ tx = NoTransaction
    /\ req = NoRequest
    /\ enf = NewEnforcer

\* NewStore
Construct ==
    \/ SyncCacheRolesFail
    \/ SyncCacheRoles
    \/ SyncCachePermissionsFail
    \/ SyncCachePermissions

\* a goroutine of T enters an ACL call on a resource of R (the Store call may
\* fail as F says)
BeginACL(T, R, F) ==
    \/ \E t \in T, u \in Users, r \in R, ty \in Types,
          acts \in NonEmptyActionSets, fail \in F :
            \/ CreateStore(t, u, r, ty, acts, fail)
            \/ UpdateStore(t, u, r, ty, acts, fail)
    \/ \E t \in T, u \in Users, r \in R, fail \in F : DeleteStore(t, u, r, fail)
    \/ \E t \in T, u \in Users, r \in R, ty \in Types, a \in Actions :
            ValidateAccessCheckInstance(t, u, r, ty, a)

\* a goroutine of T enters a type-scope check or a role synchronisation, or
\* the role of record of a user changes
BeginRole(T) ==
    \/ \E t \in T, u \in Users, ty \in Types, a \in Actions :
            ValidateAccessToResourceCheck(t, u, ty, a)
    \/ \E t \in T, u \in Users, role \in Roles : SyncUserRoleStore(t, u, role)
    \/ \E u \in Users, role \in Roles : UserUpdateRole(u, role)

\* a goroutine takes the next step of the write or the check it is in
ContinueACL ==
    \E t \in Threads :
        \/ CacheAdd(t)
        \/ CacheClear(t)
        \/ ValidateAccessCheckType(t)
        \/ \E fail \in BOOLEAN : StoreCheck(t, fail)
        \/ CacheRepair(t)

\* a goroutine takes the next step of the SyncUserRole it is in
ContinueRole ==
    \E t \in Threads :
        \/ CacheRemoveRole(t)
        \/ CacheAddRole(t)

Continue == ContinueACL \/ ContinueRole

AllIdle == \A t \in Threads : th[t].pc = "idle"

\* Spec: goroutines overlap freely, on every resource
Init == InitOver(ResourceIDs)

Next ==
    /\ \/ Construct
       \/ ops < MaxOps /\ (BeginACL(Threads, ResourceIDs, BOOLEAN) \/ BeginRole(Threads))
       \/ Continue
    /\ UNCHANGED <<mw, tx, req, enf>>

Spec == Init /\ [][Next]_vars

\* SeqSpec: calls follow each other (a call begins when no other is in
\* progress), on one resource, for longer
FocusResources == {ResourceNames[1]}

SeqInit == InitOver(FocusResources)

SeqNext ==
    /\ \/ Construct
       \/ /\ ops < MaxSeqOps
          /\ AllIdle
          /\ (BeginACL({1}, FocusResources, BOOLEAN) \/ BeginRole({1}))
       \/ Continue
    /\ UNCHANGED <<mw, tx, req, enf>>

SeqSpec == SeqInit /\ [][SeqNext]_vars

\* RaceSpec: goroutines overlap in the instance-scope calls on one resource
RaceNext ==
    /\ \/ Construct
       \/ ops < MaxRaceOps /\ BeginACL(Threads, FocusResources, {FALSE})
       \/ ContinueACL
    /\ UNCHANGED <<mw, tx, req, enf>>

RaceSpec == SeqInit /\ [][RaceNext]_vars

\* FaultSpec: checks that follow each other, on an enforcer whose Enforce
\* may return an error and whose AddPolicy may fail in the self-repair
FaultNext ==
    /\ \/ Construct
       \/ /\ ops < MaxFaultOps
          /\ AllIdle
          /\ \E u \in Users, ty \in Types, a \in Actions :
                \/ \E r \in FocusResources : ValidateAccessCheckInstance(1, u, r, ty, a)
                \/ ValidateAccessToResourceCheck(1, u, ty, a)
       \/ /\ ops < MaxFaultOps
          /\ AllIdle
          /\ \E u \in Users, ty \in Types, a \in Actions :
                \/ \E r \in FocusResources :
                      ValidateAccessCheckInstanceFails(1, u, r, ty, a)
                \/ ValidateAccessToResourceCheckFails(1, u, ty, a)
       \/ \E t \in Threads :
             \/ ValidateAccessCheckType(t)
             \/ ValidateAccessCheckTypeFails(t)
             \/ \E fail \in BOOLEAN : StoreCheck(t, fail)
             \/ CacheRepair(t)
             \/ CacheRepairFails(t)
    /\ UNCHANGED <<mw, tx, req, enf>>

FaultSpec == SeqInit /\ [][FaultNext]_vars

\* EngineSpec: ValidateAccess calls that overlap each other and one Update,
\* the first call made, with the calls on the enforcer taking time
UpdateBegun == ops > 0

EngineNext ==
    /\ \/ Construct
       \/ /\ ops < MaxEngineOps
          /\ \E t \in Threads, u \in Users, r \in FocusResources, ty \in Types :
                \/ \E a \in Actions : ValidateAccessCheckInstance(t, u, r, ty, a)
                \/ \E acts \in NonEmptyActionSets :
                      ~UpdateBegun /\ UpdateStore(t, u, r, ty, acts, FALSE)
       \/ ContinueACL
       \/ \E t \in Threads : EnterEngine(t)
       \/ \E t, o \in Threads : EnginePanic(t, o)
    /\ UNCHANGED <<mw, tx, req, enf>>

EngineSpec == SeqInit /\ [][EngineNext]_vars

\* MidSpec: requests that follow each other on one route, mounted with or
\* without an id key, whose Auth has the enforcer New leaves it with (none)
\* or an enforcer holding any set of facts
MidInit ==
    /\ acl = {}
    /\ userRole = [u \in Users |-> "USER"]
    /\ policy = {}
    /\ grouping = {}
    /\ ctor = "new"
    /\ th = [t \in Threads |-> Idle]
    /\ last = NoResult
    /\ ops = 0
    /\ revoked = {}
    /\ deleted = {}
    /\ repaired = {}
    /\ \E e \in {NilEnforcer} \cup {EnforcerOf(p) : p \in SUBSET AuthFacts},
          idKey \in {"", "id"} :
            mw = NewMiddleware(e, idKey)
    /\ tx = NoTransaction
    /\ req = NoRequest
    /\ enf = NewEnforcer

MidNext ==
    \E method \in Methods, uid \in Users \cup {""}, id \in PathIDs :
        Authorize(method, uid, id)

MidSpec == MidInit /\ [][MidNext]_vars

\* ChainSpec: requests that follow each other through the chain of a route
ChainNext ==
    \/ \E authen \in BOOLEAN, allowedRoles \in RoleLists : Arrive(authen, allowedRoles)
    \/ \E header \in Headers, token \in Tokens : Authenticate(header, token)
    \/ AuthorizeRole
    \/ \E fail \in BOOLEAN : Begin(fail)
    \/ \E outcome \in {"ok", "error", "panic"} : Handler(outcome)
    \/ \E fail \in BOOLEAN : CommitOrFail(fail)

\* one route chain: the Auth is the one auth.New returns
ChainInit == MidInit /\ mw = NewMiddleware(NilEnforcer, "")

ChainSpec == ChainInit /\ [][ChainNext]_vars

\* NilSpec: calls that follow each other, on one resource or with uuid.Nil
\* for the ResourceID
NilResources == FocusResources \cup {NilID}

NilNext ==
    /\ \/ Construct
       \/ /\ ops < MaxNilOps
          /\ AllIdle
          /\ (BeginACL({1}, NilResources, BOOLEAN) \/ BeginRole({1}))
       \/ Continue
    /\ UNCHANGED <<mw, tx, req, enf>>

NilSpec == SeqInit /\ [][NilNext]_vars

\* FactSpec: the calls of memoryCache on the rules of its enforcer, in any
\* order
FactNext ==
    \/ \E u \in Users, t \in Types, id \in ResourceIDs \cup {NilID}, a \in Actions :
          AddFact(u, t, id, a)
    \/ \E u \in Users, id \in ResourceIDs \cup {NilID} : RemoveFacts(u, id)

FactSpec == ChainInit /\ [][FactNext]_vars

\* TxSpec: one caller; Create and Update are made inside a transaction, on
\* the Coordinator NewWithTx returns (the parent's enforcer, a Store bound to
\* the transaction); a check is made on the parent when no transaction is
\* open and on the Coordinator of the transaction when one is
TxNext ==
    /\ \/ /\ \/ Construct
             \/ /\ ops < MaxTxOps
                /\ AllIdle
                /\ \E u \in Users, r \in FocusResources, ty \in Types :
                      \/ \E acts \in NonEmptyActionSets :
                            /\ tx.open
                            /\ \/ CreateStore(1, u, r, ty, acts, FALSE)
                               \/ UpdateStore(1, u, r, ty, acts, FALSE)
                      \/ \E a \in Actions : ValidateAccessCheckInstance(1, u, r, ty, a)
             \/ ContinueACL
          /\ UNCHANGED tx
       \/ BeginTransaction
       \/ CommitTransaction
       \/ RollbackTransaction
    /\ UNCHANGED <<mw, req, enf>>

TxSpec == SeqInit /\ [][TxNext]_vars

(***************************************************************************)
(* The properties                                                          *)
(***************************************************************************)

\* the step is the return of a call
Returned == last'.n = last.n + 1

\* the instance-scope facts of the enforcer
InstanceFacts == {rule \in policy : rule[2] \in ResourceIDs}

\* C1: between calls, every instance-scope fact (u, r, a) of the Engine is
\* backed by a rule of the Store for (u, r) whose action set contains a
C1_EngineBackedByStore ==
    AllIdle => \A rule \in InstanceFacts : StoreGrants(rule[1], rule[2], rule[3])

\* C2: no ValidateAccess that begins after a Delete or a narrowing Update has
\* returned nil succeeds on the Engine's instance fact for an action that
\* write took away
C2_NoStaleFastPath ==
    ~(last.op = "ValidateAccess" /\ last.res = "nil" /\ last.stale)

WriteOps == {"Create", "Update", "Delete", "SyncUserRole"}

CheckOps == {"ValidateAccess", "ValidateAccessToResource"}

\* the call that returns in this step is the call that returned before it
SameCall ==
    /\ last'.op = last.op
    /\ last'.u = last.u
    /\ last'.r = last.r
    /\ last'.t = last.t
    /\ last'.a = last.a

\* C3: a write (Create, Update, Delete, SyncUserRole) that returns an error
\* returns the error of its Store call (ErrUnique only from a Create on a
\* pair that has a rule) and leaves the facts of the Engine, policy and
\* grouping, as they were
C3_FailedWriteLeavesEngine ==
    [][(Returned /\ last'.op \in WriteOps /\ last'.res # "nil")
          => /\ policy' = policy
             /\ grouping' = grouping
             /\ acl' = acl
             /\ last'.calls = 1
             /\ last'.res \in {ErrUnique, ErrInternal}
             /\ last'.res = ErrUnique
                   => last'.op = "Create" /\ HasRule(last'.u, last'.r)]_vars

\* a Create has returned ErrUnique while the Engine holds facts
C3_Witness ==
    last.op = "Create" /\ last.res = ErrUnique /\ InstanceFacts # {}

\* C4: a check that returns ErrAccessDenied has asked the Store once and has
\* added nothing to the Engine, and the same check made next asks the Store
\* again
C4_DenialNotCached ==
    [][/\ (Returned /\ last'.op \in CheckOps /\ last'.res = ErrAccessDenied)
            => /\ policy' = policy
               /\ grouping' = grouping
               /\ last'.via = "store"
               /\ last'.calls = 1
       /\ (Returned /\ last.op \in CheckOps /\ last.res = ErrAccessDenied /\ SameCall)
            => last'.via = "store" /\ last'.calls = 1]_vars

\* a check has been denied a second time in a row
C4_Witness ==
    /\ last.op = "ValidateAccess"
    /\ last.res = ErrAccessDenied
    /\ last.n = 2
    /\ ops = 2
    /\ InstanceFacts # {}

\* the Engine holds u as Admin: the matcher lets every request of u through
EngineAdmin(u) == HasLink(grouping, u, RoleName("ADMIN"))

\* the Engine holds the type-scope fact (u, ty, a)
TypeFact(u, ty, a) == <<u, ty, a>> \in policy

\* the call that returns in this step is a ValidateAccess
ValidateAccessReturned == Returned /\ last'.op = "ValidateAccess"

\* the Store was asked once and did not grant
DeniedByStore(res) ==
    /\ res.res \in {ErrAccessDenied, ErrInternal}
    /\ res.via = "store"
    /\ res.calls = 1

C6_WarmUp ==
    /\ []((ctor = "ready" /\ ops = 0)
           => \A row \in acl : \A a \in row.actions :
                 <<row.user, row.resource, a>> \in policy)
    /\ [][(/\ ops = 0
            /\ \E t \in Threads :
                  /\ th'[t].op = "ValidateAccess"
                  /\ th'[t].pc # "idle")
              => \A t \in Threads :
                    ~DBValidateAccess(th'[t].u, th'[t].r, th'[t].t, th'[t].a)]_vars
    /\ [][(/\ ops = 0
            /\ ValidateAccessReturned
            /\ DBValidateAccess(last'.u, last'.r, last'.t, last'.a))
              => last'.res = "nil" /\ last'.calls = 0]_vars

\* the first call on a new Coordinator was a ValidateAccess of a user who is
\* not Admin, for a rule of the Store, and it returned nil from the Engine
C6_Witness ==
    /\ ops = 1
    /\ last.op = "ValidateAccess"
    /\ last.res = "nil"
    /\ last.via = "instance"
    /\ last.calls = 0
    /\ DBValidateAccess(last.u, last.r, last.t, last.a)

\* C7: no call is made on a Coordinator unless both loads of NewStore have
\* succeeded; the roles are loaded before the rules; and the Coordinator
\* that NewStore returns holds the role of every user and the facts of every
\* rule
C7_ConstructionAllOrNothing ==
    /\ ctor # "ready" => AllIdle /\ ops = 0 /\ last = NoResult /\ policy = {}
    /\ ctor = "new" => grouping = {}
    /\ ctor = "rolesLoaded"
         => \A u \in Users : <<u, RoleName(userRole[u])>> \in grouping
    /\ (ctor = "ready" /\ ops = 0)
         => /\ \A u \in Users : <<u, RoleName(userRole[u])>> \in grouping
            /\ \A row \in acl : \A a \in row.actions :
                  <<row.user, row.resource, a>> \in policy

\* the second load of NewStore has failed after the roles were loaded, with
\* rules in the Store
C7_Witness ==
    ctor = "failed" /\ grouping # {} /\ acl # {}

\* the latest write of (u, r) was an Update that has returned nil and took
\* action a away from the rule, which is still there
Narrowed(u, r, a) == <<u, r, a>> \in revoked /\ HasRule(u, r)

\* C8 as stated: after an Update has narrowed the rule of (u, r), a
\* ValidateAccess for an action it took away asks the Store and is denied
C8_NarrowedActionDenied ==
    [][(ValidateAccessReturned /\ Narrowed(last'.u, last'.r, last'.a))
          => DeniedByStore(last')]_vars

\* C8 amended: after an Update has narrowed the rule of (u, r), the Engine
\* holds no instance fact for an action it took away; a ValidateAccess for
\* such an action, of a subject that the Engine does not hold as Admin and
\* for which it holds no type-scope fact (u, ty, a), asks the Store and is
\* denied; a ValidateAccess for an action the rule kept returns nil from the
\* Engine without a Store call
C8_UpdateNarrows ==
    /\ [](AllIdle => \A f \in revoked :
                        Narrowed(f[1], f[2], f[3]) => f \notin policy)
    /\ [][(/\ ValidateAccessReturned
            /\ Narrowed(last'.u, last'.r, last'.a)
            /\ ~EngineAdmin(last'.u)
            /\ ~TypeFact(last'.u, last'.t, last'.a))
              => DeniedByStore(last')]_vars
    /\ [][(/\ ValidateAccessReturned
            /\ \E a \in Actions : Narrowed(last'.u, last'.r, a)
            /\ DBValidateAccess(last'.u, last'.r, last'.t, last'.a))
              => last'.res = "nil" /\ last'.calls = 0]_vars

\* after an Update that took an action away, a ValidateAccess for that action
\* has been denied by the Store
C8_Witness ==
    /\ last.op = "ValidateAccess"
    /\ last.res = ErrAccessDenied
    /\ last.calls = 1
    /\ Narrowed(last.u, last.r, last.a)

\* C9: once a Delete of (u, r) has returned nil and until a Create of (u, r),
\* between calls the Engine holds no instance fact of (u, r), and every
\* ValidateAccess on (u, r) of a subject who is not Admin (and for whom the
\* Engine holds no type-scope fact of the check) asks the Store and is denied
C9_DeletedPairDenied ==
    /\ [](AllIdle => \A d \in deleted : PairFacts(d[1], d[2]) \cap policy = {})
    /\ [][(/\ ValidateAccessReturned
            /\ <<last'.u, last'.r>> \in deleted
            /\ userRole[last'.u] # "ADMIN"
            /\ ~EngineAdmin(last'.u)
            /\ ~TypeFact(last'.u, last'.t, last'.a))
              => DeniedByStore(last')]_vars

\* C10: a Delete of a pair that has no rule in the Store returns nil and
\* leaves the Store and the facts of the Engine as they were
C10_DeleteOfMissingRule ==
    /\ [][\A t \in Threads :
            (th[t].pc = "idle" /\ th'[t].op = "Delete" /\ ~HasRule(th'[t].u, th'[t].r))
               => acl' = acl /\ policy' = policy /\ grouping' = grouping]_vars
    /\ [][\A t \in Threads :
            (th[t].op = "Delete" /\ th[t].pc = "clear" /\ th[t].gone = {})
               => /\ Returned
                  /\ last'.res = "nil"
                  /\ acl' = acl
                  /\ policy' = policy
                  /\ grouping' = grouping]_vars

\* the step is the Store call with which a call begins
Begins == ops' = ops + 1

\* C11: a Create whose INSERT finds a rule for its pair returns ErrUnique and
\* goes no further: the Store and the facts of the Engine are as they were
C11_DuplicateCreateRejected ==
    [][/\ \A t \in Threads :
            (th[t].pc = "idle" /\ th'[t].op = "Create")
               => ~HasRule(th'[t].u, th'[t].r)
       /\ (Begins /\ Returned /\ last'.op = "Create" /\ HasRule(last'.u, last'.r))
            => /\ last'.res = ErrUnique
               /\ acl' = acl
               /\ policy' = policy
               /\ grouping' = grouping]_vars

\* a Create on a pair whose rule grants GET alone has been rejected, and the
\* Engine holds the GET fact of the pair and no other
C11_Witness ==
    /\ last.op = "Create"
    /\ last.res = ErrUnique
    /\ RuleActions(last.u, last.r) = {"GET"}
    /\ PairFacts(last.u, last.r) \cap policy = {<<last.u, last.r, "GET">>}

\* C12: when a Create has returned nil, the Engine holds the instance fact of
\* every action of the rule it created, and a ValidateAccess on the pair for
\* one of these actions, made next, returns nil from the Engine without a
\* Store call
C12_CreateVisible ==
    /\ []((AllIdle /\ last.op = "Create" /\ last.res = "nil")
            => \A a \in RuleActions(last.u, last.r) :
                  <<last.u, last.r, a>> \in policy)
    /\ [][(/\ last.op = "Create"
           /\ last.res = "nil"
           /\ ValidateAccessReturned
           /\ last'.u = last.u
           /\ last'.r = last.r
           /\ last'.a \in RuleActions(last.u, last.r))
             => /\ last'.res = "nil"
                /\ last'.calls = 0
                /\ last'.via \in {"instance", "bypass"}]_vars

\* a Create of a rule with both actions has returned nil and the Engine holds
\* both facts
C12_Witness ==
    /\ AllIdle
    /\ last.op = "Create"
    /\ last.res = "nil"
    /\ RuleActions(last.u, last.r) = Actions
    /\ PairFacts(last.u, last.r) \subseteq policy

\* C13: while the Engine holds the grouping fact (u, ROLE:ADMIN), Enforce is
\* true for u on every object and action whatever the policy facts, so a
\* ValidateAccess or ValidateAccessToResource of u returns nil at its Engine
\* check, without a Store call
C13_AdminBypass ==
    /\ [](\A u \in Users : EngineAdmin(u)
            => \A obj \in ResourceIDs \cup Types : \A a \in Actions :
                  Enforce(policy, grouping, u, obj, a))
    /\ [][\A t \in Threads :
            (th[t].pc = "idle" /\ th'[t].op \in CheckOps)
               => ~EngineAdmin(th'[t].u)]_vars
    /\ [][(Begins /\ Returned /\ last'.op \in CheckOps /\ EngineAdmin(last'.u))
             => last'.res = "nil" /\ last'.calls = 0]_vars

\* a type-scope check of an Admin has returned nil from an Engine that holds
\* no policy fact at all
C13_Witness ==
    /\ policy = {}
    /\ last.op = "ValidateAccessToResource"
    /\ last.res = "nil"
    /\ last.via = "bypass"
    /\ last.calls = 0

\* C14: a check (ValidateAccess or ValidateAccessToResource) of a subject
\* whose role of record is ADMIN returns nil, or the failure of the Store call
\* if there was one, and never ErrAccessDenied
C14_AdminOfRecordPasses ==
    [][(Returned /\ last'.op \in CheckOps /\ userRole[last'.u] = "ADMIN")
          => last'.res \in {"nil", ErrInternal}]_vars

\* C15: the Engine never holds more than one grouping fact per subject; the
\* warm-up leaves for every user the one fact that names its role of record;
\* and when the setUserRole of SyncUserRole(u, role) completes, the Engine
\* holds for u exactly the fact (u, ROLE:<role>)
C15_OneRolePerSubject ==
    /\ [](\A u \in Users : Cardinality(RolesOf(grouping, u)) <= 1)
    /\ []((ctor = "ready" /\ ops = 0)
            => \A u \in Users :
                  RolesOf(grouping, u) = {<<u, RoleName(userRole[u])>>})
    /\ [][\A t \in Threads :
            th[t].pc = "addrole"
               => RolesOf(grouping', th[t].u)
                    = {<<th[t].u, RoleName(th[t].role)>>}]_vars

\* the warm-up loaded u1 as ADMIN and a SyncUserRole, the second call made,
\* has left the one fact (u1, ROLE:USER)
C15_Witness ==
    /\ userRole["u1"] = "ADMIN"
    /\ last.op = "SyncUserRole"
    /\ last.res = "nil"
    /\ last.n = 2
    /\ ops = 2
    /\ RolesOf(grouping, "u1") = {<<"u1", RoleName("USER")>>}

\* goroutine o is inside setUserRole for u, between the removal of the fact
\* (u, ROLE:ADMIN) and the addition of the same fact
ResyncsAdmin(o, u) ==
    /\ th[o].pc = "addrole"
    /\ th[o].u = u
    /\ th[o].role = "ADMIN"
    /\ th[o].gone = {<<u, RoleName("ADMIN")>>}

\* C16: no check of a subject misses the Engine while a SetRole that re-syncs
\* the subject from Admin to Admin is in progress, and whenever no call is in
\* progress the Engine holds exactly one grouping fact per user
C16_SetRoleAtomic ==
    /\ [][\A t, o \in Threads :
            (th[t].pc = "idle" /\ th'[t].op \in CheckOps /\ th'[t].pc # "idle")
               => ~ResyncsAdmin(o, th'[t].u)]_vars
    /\ []((ctor = "ready" /\ AllIdle)
            => \A u \in Users : Cardinality(RolesOf(grouping, u)) = 1)

\* the Engine holds for u the one grouping fact of u's role of record
RoleSynced(u) == RolesOf(grouping, u) = {<<u, RoleName(userRole[u])>>}

\* C17: a ValidateAccessToResource of U that begins after SyncUserRole(U, r)
\* has returned nil, r being U's role of record, returns nil when the Store
\* grants the action to role r and ErrAccessDenied when it does not (a failure
\* of the Store apart)
C17_SyncedRoleDecides ==
    [][(/\ last.op = "SyncUserRole"
        /\ last.res = "nil"
        /\ RoleSynced(last.u)
        /\ Returned
        /\ last'.op = "ValidateAccessToResource"
        /\ last'.u = last.u
        /\ last'.res # ErrInternal)
          => (last'.res = "nil" <=> DBValidateAccessToResource(last'.u, last'.t, last'.a))]_vars

\* C18: every step in which the role of record of a user changes (userbus
\* Update with a Role reporting success) leaves the Engine with the grouping
\* fact of the new role, the one a SyncUserRole made within the operation
\* would have written
C18_RoleChangeSyncs ==
    [][\A u \in Users :
          userRole'[u] # userRole[u]
             => RolesOf(grouping', u) = {<<u, RoleName(userRole'[u])>>}]_vars

C20_FacadeKeepsClass ==
    last.n > 0
       => /\ last.core = <<>> <=> last.res = "nil"
          /\ \A e \in {ErrAccessDenied, ErrUnique} : Is(last.core, e) <=> last.res = e
          /\ last.res # "nil" => Is(last.core, last.res)

\* a Create on a pair that has a rule has returned, through the facade,
\* ErrUnique under two wrappings
C20_Witness ==
    /\ last.op = "Create"
    /\ last.res = ErrUnique
    /\ last.core = <<"create", "namedexeccontext", ErrUnique>>

\* C21: in no state is a goroutine inside a write of the enforcer (add,
\* remove, set-role) while another is inside a read (Enforce) or a write of it
C21_EngineSerialized ==
    \A t, o \in Threads : ~Races(t, o)

\* the step is the end of a ValidateAccess of the pair and the type of the
\* Update that goroutine o is in, an Update that matched a rule, for a user
\* who is not Admin in the Engine, the Store having answered the check if asked
ReadDuringUpdate(o) ==
    /\ th[o].op = "Update"
    /\ th[o].old # {}
    /\ Returned
    /\ last'.op = "ValidateAccess"
    /\ last'.u = th[o].u
    /\ last'.r = th[o].r
    /\ last'.t = th[o].t
    /\ last'.res # ErrInternal
    /\ ~EngineAdmin(th[o].u)

\* C22: a ValidateAccess that ends while the one Update of its pair is in
\* progress returns a verdict, success when the action is in both the old and
\* the new action set and ErrAccessDenied when it is in neither
C22_NoTornRead ==
    [][\A o \in Threads :
          ReadDuringUpdate(o)
             => /\ last'.res \in {"nil", ErrAccessDenied}
                /\ last'.a \in th[o].old \cap th[o].acts => last'.res = "nil"
                /\ last'.a \notin th[o].old \cup th[o].acts => last'.res = ErrAccessDenied]_vars

\* the call that returns in this step is a ValidateAccessToResource
TypeCheckReturned == Returned /\ last'.op = "ValidateAccessToResource"

\* C23: a ValidateAccessToResource(u, ty, a) returns nil without a Store call
\* when the Engine holds the type-scope fact (u, ty, a); when the Engine says
\* no it asks the Store once, and then returns nil with the fact added if the
\* Store grants, ErrAccessDenied with nothing added if the Store denies; and
\* the same check made after one that returned nil makes no Store call
C23_TypeReadPath ==
    /\ [][(TypeCheckReturned /\ TypeFact(last'.u, last'.t, last'.a))
             => /\ last'.res = "nil"
                /\ last'.calls = 0
                /\ policy' = policy]_vars
    /\ [][(TypeCheckReturned /\ ~checkType(policy, grouping, last'.u, last'.t, last'.a))
             => /\ last'.calls = 1
                /\ last'.via = "store"
                /\ last'.res \in {"nil", ErrAccessDenied, ErrInternal}
                /\ last'.res = "nil"
                     => /\ DBValidateAccessToResource(last'.u, last'.t, last'.a)
                        /\ policy' = policy \cup {<<last'.u, last'.t, last'.a>>}
                /\ last'.res = ErrAccessDenied
                     => /\ ~DBValidateAccessToResource(last'.u, last'.t, last'.a)
                        /\ policy' = policy]_vars
    /\ [][(/\ last.op = "ValidateAccessToResource"
            /\ last.res = "nil"
            /\ TypeCheckReturned
            /\ last'.u = last.u /\ last'.t = last.t /\ last'.a = last.a)
             => last'.res = "nil" /\ last'.calls = 0]_vars

\* a ValidateAccessToResource of a user who is not Admin has returned nil from
\* the type-scope fact that the same check, made before, had repaired
C23_Witness ==
    /\ last.op = "ValidateAccessToResource"
    /\ last.res = "nil"
    /\ last.via = "type"
    /\ last.calls = 0
    /\ last.n = 2
    /\ ops = 2
    /\ ~EngineAdmin(last.u)
    /\ policy = {<<last.u, last.t, last.a>>}

\* C24: a ValidateAccess(u, r, ty, a) of a user who is Admin neither of
\* record nor in the Engine, made when no other call is in progress, returns
\* nil only if the Store holds a rule of (u, r) of type ty that contains a
C24_StoreAuthoritative ==
    [][(/\ ValidateAccessReturned
        /\ last'.res = "nil"
        /\ userRole[last'.u] # "ADMIN"
        /\ ~EngineAdmin(last'.u))
          => DBValidateAccess(last'.u, last'.r, last'.t, last'.a)]_vars

\* the type-scope facts of the enforcer
TypeFacts == {rule \in policy : rule[2] \in Types}

\* C25: when NewStore has returned the Coordinator and nothing else has
\* happened, the Engine holds one grouping fact per user, the instance facts
\* of the rules and no type-scope fact; and the first call made, when it is a
\* ValidateAccessToResource of a user who is not Admin, asks the Store
C25_NoTypeFactWarmed ==
    /\ []((ctor = "ready" /\ ops = 0)
            => /\ TypeFacts = {}
               /\ policy = UNION {{<<row.user, row.resource, a>> : a \in row.actions} :
                                     row \in acl}
               /\ grouping = {<<u, RoleName(userRole[u])>> : u \in Users})
    /\ [][(ops' = 1 /\ last.n = 0 /\ TypeCheckReturned /\ userRole[last'.u] # "ADMIN")
             => last'.calls = 1 /\ last'.via = "store"]_vars

\* the first call on a new Coordinator was a ValidateAccessToResource of an
\* Analyst: the Store was asked, granted, and the type-scope fact is the
\* only one of the Engine
C25_Witness ==
    /\ ops = 1
    /\ last.op = "ValidateAccessToResource"
    /\ last.res = "nil"
    /\ last.via = "store"
    /\ last.calls = 1
    /\ userRole[last.u] = "ANALYST"
    /\ TypeFacts = {<<last.u, last.t, last.a>>}
    /\ acl # {}

\* C26: the step of the self-repair returns nil to the caller of the check
\* whether the fact was added or not; so a check that asked the Store, and
\* whose Store call did not fail, returns nil whenever the Store grants
C26_RepairFailureHidden ==
    /\ [][\A t \in Threads :
             (th[t].pc = "repair" /\ th'[t] # th[t])
                => /\ Returned
                   /\ last'.op \in CheckOps
                   /\ last'.res = "nil"]_vars
    /\ [][(/\ Returned
            /\ last'.op \in CheckOps
            /\ last'.via = "store"
            /\ last'.res # ErrInternal
            /\ DBCheck(last') = "nil")
             => last'.res = "nil" /\ last'.calls = 1]_vars

\* a ValidateAccessToResource that the Store granted has returned nil and the
\* Engine does not hold the fact of the check: the add failed
C26_Witness ==
    /\ last.op = "ValidateAccessToResource"
    /\ last.res = "nil"
    /\ last.via = "store"
    /\ last.calls = 1
    /\ <<last.u, last.t, last.a>> \notin policy

KnownVerbs == {"GET", "POST", "PUT", "PATCH", "DELETE"}

\* C27: the middleware answers a request that carries a user id with the
\* action GET for GET, CREATE for POST, UPDATE for PUT and PATCH, DELETE for
\* DELETE, and with FailedPrecondition for any other verb; for another verb
\* it calls neither Auth.Authorize nor the next handler
C27_VerbMapping ==
    LET q == mw.resp
    IN /\ (q.user # "" /\ q.method \in KnownVerbs)
            => /\ q.act = CASE q.method = "GET" -> "GET"
                            [] q.method = "POST" -> "CREATE"
                            [] q.method = "DELETE" -> "DELETE"
                            [] OTHER -> "UPDATE"
               /\ q.checks # <<>>
       /\ (q.user # "" /\ q.method \in Methods \ KnownVerbs)
            => q.code = FailedPrecondition
       /\ q.method \in Methods \ KnownVerbs
            => q.checks = <<>> /\ ~q.next /\ q.act = "-"

\* a HEAD request of a user whom the enforcer grants GET on the resource has
\* been answered with FailedPrecondition
C27_Witness ==
    /\ mw.resp.method = "HEAD"
    /\ mw.resp.user = "u1"
    /\ mw.resp.code = FailedPrecondition
    /\ mw.enforcer.set
    /\ <<"u1", RouteResource, "GET">> \in mw.enforcer.facts

\* C28: a request whose resource id is present and is not in its proper form
\* is answered with FailedPrecondition by Auth.Authorize and by the
\* middleware, whatever the facts of the enforcer
C28_MalformedIDIsPrecondition ==
    LET q == mw.resp
    IN (/\ mw.enforcer.set
        /\ q.act \in {"GET", "CREATE", "UPDATE", "DELETE"}
        /\ q.rid # ""
        /\ ~ParsesAsUUID(q.rid))
          => q.err = FailedPrecondition /\ q.code = FailedPrecondition


\* the last call that returned is an Update that returned nil, and the Store
\* has no rule for its pair
UpdatedMissingRule ==
    /\ last.op = "Update"
    /\ last.res = "nil"
    /\ ~HasRule(last.u, last.r)

\* C29: after an Update of a pair that has no rule in the Store has returned
\* nil, the Engine holds no instance fact of the pair, and a ValidateAccess
\* on the pair by a subject who is not Admin is then denied
C29_UpdateOfMissingRule ==
    /\ [](AllIdle /\ UpdatedMissingRule
             => PairFacts(last.u, last.r) \cap policy = {})
    /\ [][(/\ UpdatedMissingRule
           /\ ValidateAccessReturned
           /\ last'.u = last.u
           /\ last'.r = last.r
           /\ userRole[last'.u] # "ADMIN"
           /\ ~EngineAdmin(last'.u))
              => last'.res = ErrAccessDenied]_vars


\* C30: no ValidateAccess is answered nil by the Engine's instance fact for
\* a grant of a transaction that was rolled back, unless the Store holds a
\* rule that grants it
C30_RolledBackGrantNotServed ==
    [][(/\ ValidateAccessReturned
        /\ last'.res = "nil"
        /\ last'.via = "instance"
        /\ <<last'.u, last'.r, last'.a>> \in tx.rolled)
           => StoreGrants(last'.u, last'.r, last'.a)]_vars


\* C31: a check of a subject who is not Admin is answered by the Engine
\* exactly when the Engine holds the instance fact (u, r, a), for a check
\* that carries a ResourceID, or the type fact (u, t, a); the instance fact
\* is looked at first, and a check with the nil ResourceID is answered by
\* the type fact only
C31_InstanceBeforeType ==
    [][(Returned /\ last'.op \in CheckOps /\ ~EngineAdmin(last'.u)) =>
          LET inst == /\ last'.op = "ValidateAccess"
                      /\ <<last'.u, last'.r, last'.a>> \in policy
              type == TypeFact(last'.u, last'.t, last'.a)
          IN /\ (last'.calls = 0) <=> (inst \/ type)
             /\ last'.calls = 0 => last'.res = "nil"
             /\ inst => last'.via = "instance"
             /\ (~inst /\ type) => last'.via = "type"
             /\ (last'.op = "ValidateAccessToResource" /\ last'.calls = 0)
                   => type /\ last'.via = "type"]_vars

\* a type-scope check went to the Store while the Engine held an instance
\* fact of its subject and action
C31_Witness ==
    /\ last.op = "ValidateAccessToResource"
    /\ last.calls = 1
    /\ \E r \in ResourceIDs : <<last.u, r, last.a>> \in policy
    /\ ~TypeFact(last.u, last.t, last.a)


\* the subjects a check may name: the users, and one the Engine has no fact of
CheckSubjects == {UserNames[i] : i \in 1..(NumUsers + 1)}

\* the objects a check may name
CheckObjects == ResourceIDs \cup Types

\* C32: the Engine's check of (sub, obj, act) says yes exactly when sub is
\* grouped under ROLE:ADMIN or the Engine holds the fact (sub, obj, act)
C32_ExactMatch ==
    \A sub \in CheckSubjects, obj \in CheckObjects, act \in Actions :
        Enforce(policy, grouping, sub, obj, act)
            <=> (\/ <<sub, RoleName("ADMIN")>> \in grouping
                 \/ <<sub, obj, act>> \in policy)

\* the Engine holds a fact of a subject and says no to the same subject on
\* another object, and on another action of the same object
C32_Witness ==
    \E rule \in policy :
        /\ \E obj \in CheckObjects \ {rule[2]} :
              ~Enforce(policy, grouping, rule[1], obj, rule[3])
        /\ \E act \in Actions \ {rule[3]} :
              ~Enforce(policy, grouping, rule[1], rule[2], act)
        /\ \E sub \in CheckSubjects \ {rule[1]} :
              ~Enforce(policy, grouping, sub, rule[2], rule[3])


\* the last request reached ath.Authorize
AuthorizeCalled == mw.resp.act \in {"GET", "CREATE", "UPDATE", "DELETE"}

\* the enforcer of Auth holds the fact
AuthFact(sub, obj, act) == mw.enforcer.set /\ <<sub, obj, act>> \in mw.enforcer.facts

\* C33: Authorize returns nil exactly when the enforcer grants (user,
\* resource type, action) and, given a resourceID, also (user, resourceID,
\* action); it does not ask about the instance when the type is not granted
C33_DoubleGuard ==
    LET q == mw.resp
        typeOK == AuthFact(q.user, RouteResource, q.act)
        instOK == ParsesAsUUID(q.rid) /\ AuthFact(q.user, ParsedString(q.rid), q.act)
    IN AuthorizeCalled =>
          /\ (q.err = "nil") <=> (typeOK /\ (q.rid # "" => instOK))
          /\ ~typeOK => q.checks = <<RouteResource>>

\* Authorize returned nil after both checks for an id given in upper case
C33_Witness ==
    /\ AuthorizeCalled
    /\ mw.resp.err = "nil"
    /\ mw.resp.rid = UpperNames[1]
    /\ mw.resp.checks = <<RouteResource, ResourceNames[1]>>


\* the request went through the role check of mid.Authorize
RoleChecked == req.authz # "-"

\* the role of the claims is one of the allowed roles of the route
RoleAllowed ==
    \E i \in 1..Len(req.roles) : req.roles[i] = GetClaims(req.ctx).Role

\* C34: the role check returns nil exactly when the route has allowed roles
\* and the role of the claims is one of them; when it does not, the
\* response is PermissionDenied and neither the transaction nor the handler
\* that follow in the chain are reached; a request whose claims have no
\* subject is answered Unauthenticated
C34_SecureByDefault ==
    /\ RoleChecked =>
          /\ (req.authz = "nil") <=> (Len(req.roles) > 0 /\ RoleAllowed)
          /\ req.authz # "nil" =>
                /\ req.stage = "done"
                /\ req.code = PermissionDenied
                /\ ~req.txn.begun
                /\ req.handler = "-"
    /\ (req.stage \notin {"idle", "authn", "authz"} /\ req.authn = "-")
          => req.code = Unauthenticated /\ ~req.txn.begun /\ req.handler = "-"

\* an authenticated Admin was denied on a route mounted with no role
C34_Witness ==
    /\ req.authz = ErrForbidden
    /\ req.roles = <<>>
    /\ GetClaims(req.ctx).Role = "ADMIN"
    /\ req.code = PermissionDenied


\* the chain has answered the request
Answered == req.stage = "done"

\* C35: when the request is answered, Commit was called exactly when the
\* handler returned a response that is no error; after an error response or
\* a panic of the handler Commit was not called and the transaction is
\* rolled back; when Begin failed there is no transaction and no Commit;
\* the response is a success only when the transaction is committed; no
\* transaction is both committed and rolled back
C35_CommitIffHandlerSucceeds ==
    /\ Answered =>
          /\ (req.txn.commits = 1) <=> (req.handler = "ok")
          /\ req.txn.commits \in {0, 1}
          /\ req.handler \in {"error", "panic"} =>
                req.txn.commits = 0 /\ req.txn.rolledBack /\ ~req.txn.committed
          /\ ~req.txn.begun =>
                req.txn.commits = 0 /\ ~req.txn.committed /\ req.handler = "-"
          /\ req.code = "OK" => req.txn.committed
          /\ req.txn.begun => (req.txn.committed \/ req.txn.rolledBack \/ req.code = Internal)
    /\ ~(req.txn.committed /\ req.txn.rolledBack)

\* a request was answered with success after its transaction was committed,
\* the deferred Rollback having run
C35_Witness ==
    /\ Answered
    /\ req.handler = "ok"
    /\ req.code = "OK"
    /\ req.txn.committed
    /\ ~req.txn.rolledBack


\* C36: once mid.Authenticate has let a request through, GetTenantID gives
\* the tenant id of the token (uuid.Nil when the token has none) and
\* GetDashboardID gives the dashboard id of the token
C36_AccessorsDoNotInterfere ==
    LET claims == GetClaims(req.ctx)
    IN req.authn = "nil" =>
          /\ GetTenantID(req.ctx) =
                [v |-> IF claims.TenantID = "" THEN NilID ELSE claims.TenantID,
                 err |-> "nil"]
          /\ GetDashboardID(req.ctx) = [v |-> claims.DashboardID, err |-> "nil"]


CoordinatorWrites == {"Create", "Update", "Delete"}

\* the step is taken by a Create, an Update or a Delete of goroutine t
WriteStep(t) == th[t].op \in CoordinatorWrites \/ th'[t].op \in CoordinatorWrites

\* the call goroutine t is in during the step
CallOf(t) == IF th[t].op = "none" THEN th'[t] ELSE th[t]

\* the facts of p that are not instance facts of the pair (u, r)
FactsOutside(p, u, r) ==
    {rule \in p : ~(rule[1] = u /\ rule[2] = r /\ r \in ResourceIDs)}

\* C37: no step of a Create, an Update or a Delete changes a type-scope
\* fact, a grouping fact, or a fact of another pair than its own, also when
\* its ResourceID is uuid.Nil; the warm-up adds no type-scope fact
C37_WritesTouchOwnPairOnly ==
    [][/\ \A t \in Threads :
             WriteStep(t) =>
                /\ TypeFacts' = TypeFacts
                /\ grouping' = grouping
                /\ FactsOutside(policy', CallOf(t).u, CallOf(t).r)
                      = FactsOutside(policy, CallOf(t).u, CallOf(t).r)
       /\ ctor' # ctor => TypeFacts' = TypeFacts]_vars


\* no rule is in the list twice
NoDuplicates(rules) ==
    \A i, j \in DOMAIN rules : rules[i] = rules[j] => i = j

C39_EngineErrorIsMiss ==
    [][(Returned /\ last'.op \in CheckOps /\ last'.fault) =>
          /\ last'.calls = 1
          /\ last'.via = "store"
          /\ last'.res = "nil" => DBCheck(last') = "nil"
          /\ last'.res = ErrAccessDenied => DBCheck(last') = ErrAccessDenied]_vars

\* a ValidateAccess of an Admin in which an Enforce returned an error was
\* denied by the Store
C39_Witness ==
    /\ last.op = "ValidateAccess"
    /\ last.fault
    /\ EngineAdmin(last.u)
    /\ last.res = ErrAccessDenied
    /\ last.via = "store"

=============================================================================
